---- MODULE Spec2Model ----
(***************************************************************************)
(* A model of the eCash protocol v3 Python SDK (sdk/python/ecash_sdk.py):  *)
(* normalize, derive_key, try_decrypt and compute_commit_hash.             *)
(*                                                                         *)
(* A Python str is a sequence of code points (integers); a bytes object is *)
(* a sequence of integers in 0..255.                                       *)
(***************************************************************************)
EXTENDS Integers, Sequences, FiniteSets, TLC

VARIABLES
    normIn,      \* normalize: the raw answer handed to normalize
    normPasses,  \* normalize: how many times normalize has been applied (0..2)
    normOnce,    \* normalize: normalize(normIn), once normPasses >= 1
    normTwice,   \* normalize: normalize(normOnce), once normPasses = 2
    puzzle,      \* the blob the puzzle author published, and how it was made
    attempt,     \* the last try_decrypt call: its arguments and its outcome
    commit       \* the last compute_commit_hash call: arguments and outcome

vars == <<normIn, normPasses, normOnce, normTwice, puzzle, attempt, commit>>

---------------------------------------------------------------------------
(* Bounds of the model.                                                    *)

\* longest raw answer handed to normalize
MaxLen == 4

\* The code points raw answers are drawn from: space, TAB, '!', '0', '9',
\* 'A', 'Z', 'a', 'z', U+00E9 (e acute), U+0130 (capital I with dot above),
\* U+212A (KELVIN SIGN).
Alphabet == {32, 9, 33, 48, 57, 65, 90, 97, 122, 233, 304, 8490}

RECURSIVE StringsUpTo(_, _)
StringsUpTo(S, n) ==
    IF n = 0 THEN {<<>>}
    ELSE LET shorter == StringsUpTo(S, n - 1)
         IN  shorter \cup {Append(s, c) : s \in {t \in shorter : Len(t) = n - 1}, c \in S}

---------------------------------------------------------------------------
(* Python primitives used by normalize.                                    *)

\* str.lower() on one code point: the code points of its lowercase form
\* (ASCII, Latin-1 and the two non-ASCII code points whose lowercase form
\* holds an ASCII letter).  Unicode lowercasing, not ASCII: U+0130 lowers
\* to "i" + U+0307 and U+212A to "k".
LowerChar(c) ==
    IF c >= 65 /\ c <= 90 THEN <<c + 32>>
    ELSE IF c >= 192 /\ c <= 222 /\ c # 215 THEN <<c + 32>>
    ELSE IF c = 304 THEN <<105, 775>>
    ELSE IF c = 8490 THEN <<107>>
    ELSE IF c = 8491 THEN <<229>>
    ELSE <<c>>

RECURSIVE lower(_)
lower(s) == IF s = <<>> THEN <<>> ELSE LowerChar(Head(s)) \o lower(Tail(s))

\* the character class [a-z0-9 ] of the first re.sub
IsKept(c) == (c >= 97 /\ c <= 122) \/ (c >= 48 /\ c <= 57) \/ c = 32

\* re.sub(r'[^a-z0-9 ]', '', s)
RECURSIVE SubDisallowed(_)
SubDisallowed(s) ==
    IF s = <<>> THEN <<>>
    ELSE IF IsKept(Head(s)) THEN <<Head(s)>> \o SubDisallowed(Tail(s))
    ELSE SubDisallowed(Tail(s))

\* \s of a str pattern, and str.isspace(): Unicode whitespace
IsSpace(c) ==
    \/ c >= 9 /\ c <= 13
    \/ c >= 28 /\ c <= 32
    \/ c \in {133, 160, 5760, 8232, 8233, 8239, 8287, 12288}
    \/ c >= 8192 /\ c <= 8202

\* re.sub(r'\s+', ' ', s): every maximal run of whitespace becomes one space
RECURSIVE SubSpaces(_)
SubSpaces(s) ==
    IF s = <<>> THEN <<>>
    ELSE IF IsSpace(Head(s))
         THEN IF Len(s) > 1 /\ IsSpace(s[2])
              THEN SubSpaces(Tail(s))
              ELSE <<32>> \o SubSpaces(Tail(s))
         ELSE <<Head(s)>> \o SubSpaces(Tail(s))

RECURSIVE LStrip(_)
LStrip(s) == IF s # <<>> /\ IsSpace(Head(s)) THEN LStrip(Tail(s)) ELSE s

RECURSIVE RStrip(_)
RStrip(s) ==
    IF s # <<>> /\ IsSpace(s[Len(s)]) THEN RStrip(SubSeq(s, 1, Len(s) - 1)) ELSE s

\* str.strip()
strip(s) == RStrip(LStrip(s))

\* A slip in the order of the steps: the spaces are collapsed and trimmed
\* before the disallowed characters are removed.
normalize_filter_last(answer) == SubDisallowed(strip(SubSpaces(lower(answer))))

\* A slip that forgets the final strip().
normalize_no_trim(answer) == SubSpaces(SubDisallowed(lower(answer)))

normalize(answer) == strip(SubSpaces(SubDisallowed(lower(answer))))

---------------------------------------------------------------------------
(* Python primitives used by derive_key and try_decrypt.                   *)

RECURSIVE Flatten(_)
Flatten(ss) == IF ss = <<>> THEN <<>> ELSE Head(ss) \o Flatten(Tail(ss))

\* the UTF-8 encoding of one code point
Utf8Char(c) ==
    IF c < 128 THEN <<c>>
    ELSE IF c < 2048 THEN <<192 + (c \div 64), 128 + (c % 64)>>
    ELSE IF c < 65536
         THEN <<224 + (c \div 4096), 128 + ((c \div 64) % 64), 128 + (c % 64)>>
    ELSE <<240 + (c \div 262144), 128 + ((c \div 4096) % 64),
           128 + ((c \div 64) % 64), 128 + (c % 64)>>

\* a lone surrogate cannot be encoded: str.encode raises UnicodeEncodeError
IsSurrogate(c) == c >= 55296 /\ c <= 57343

\* str.encode('utf-8') of a str without surrogates
encode_utf8(s) == Flatten([i \in 1..Len(s) |-> Utf8Char(s[i])])

IsCont(b) == b >= 128 /\ b <= 191

\* bytes.decode('utf-8'), strict: [ok, s], ok = FALSE for UnicodeDecodeError
RECURSIVE decode_utf8(_)
decode_utf8(b) ==
    IF b = <<>> THEN [ok |-> TRUE, s |-> <<>>]
    ELSE
      LET b1 == b[1]
          n  == IF b1 < 128 THEN 1
                ELSE IF b1 >= 194 /\ b1 <= 223 THEN 2
                ELSE IF b1 >= 224 /\ b1 <= 239 THEN 3
                ELSE IF b1 >= 240 /\ b1 <= 244 THEN 4
                ELSE 0
          wellFormed ==
              /\ n > 0
              /\ Len(b) >= n
              /\ \A i \in 2..n : IsCont(b[i])
          cp == IF n = 1 THEN b1
                ELSE IF n = 2 THEN (b1 - 192) * 64 + (b[2] - 128)
                ELSE IF n = 3
                     THEN (b1 - 224) * 4096 + (b[2] - 128) * 64 + (b[3] - 128)
                ELSE (b1 - 240) * 262144 + (b[2] - 128) * 4096
                     + (b[3] - 128) * 64 + (b[4] - 128)
          \* no overlong forms, no surrogates, nothing above U+10FFFF
          inRange ==
              /\ n = 3 => cp >= 2048 /\ ~IsSurrogate(cp)
              /\ n = 4 => cp >= 65536 /\ cp <= 1114111
      IN  IF ~wellFormed \/ ~inRange THEN [ok |-> FALSE, s |-> <<>>]
          ELSE LET rest == decode_utf8(SubSeq(b, n + 1, Len(b)))
               IN  IF rest.ok THEN [ok |-> TRUE, s |-> <<cp>> \o rest.s]
                   ELSE rest

\* the decimal digits of a natural number, as f"{puzzle_id}" formats it
RECURSIVE Decimal(_)
Decimal(n) ==
    IF n < 10 THEN <<48 + n>> ELSE Decimal(n \div 10) \o <<48 + (n % 10)>>

\* the value of a hexadecimal digit, -1 for any other character
HexValue(c) ==
    IF c >= 48 /\ c <= 57 THEN c - 48
    ELSE IF c >= 97 /\ c <= 102 THEN c - 87
    ELSE IF c >= 65 /\ c <= 70 THEN c - 55
    ELSE -1

\* ASCII whitespace, which bytes.fromhex skips between bytes
IsAsciiSpace(c) == c \in {9, 10, 11, 12, 13, 32}

\* bytes.fromhex(s): [ok, bytes], ok = FALSE for the ValueError
\* "non-hexadecimal number found in fromhex() arg"
RECURSIVE fromhex(_)
fromhex(s) ==
    IF s = <<>> THEN [ok |-> TRUE, bytes |-> <<>>]
    ELSE IF IsAsciiSpace(s[1]) THEN fromhex(Tail(s))
    ELSE IF Len(s) < 2 \/ HexValue(s[1]) < 0 \/ HexValue(s[2]) < 0
         THEN [ok |-> FALSE, bytes |-> <<>>]
    ELSE LET rest == fromhex(SubSeq(s, 3, Len(s)))
         IN  IF rest.ok
             THEN [ok |-> TRUE,
                   bytes |-> <<16 * HexValue(s[1]) + HexValue(s[2])>> \o rest.bytes]
             ELSE rest

---------------------------------------------------------------------------
(* JSON values and json.loads.  A JSON value is a record [t, n, s, items]: *)
(* t its type, n the value of a bool or an int, s the text of a str, items *)
(* the elements of a list or the [k, v] members of a dict in insertion     *)
(* order.  The texts of the model hold no floats and no \u escapes.        *)

JNull == [t |-> "null", n |-> 0, s |-> <<>>, items |-> <<>>]
JBool(b) == [t |-> "bool", n |-> IF b THEN 1 ELSE 0, s |-> <<>>, items |-> <<>>]
JInt(n) == [t |-> "int", n |-> n, s |-> <<>>, items |-> <<>>]
JStr(s) == [t |-> "str", n |-> 0, s |-> s, items |-> <<>>]
JList(items) == [t |-> "list", n |-> 0, s |-> <<>>, items |-> items]
JDict(members) == [t |-> "dict", n |-> 0, s |-> <<>>, items |-> members]

ParseFail == [ok |-> FALSE, v |-> JNull, i |-> 0]
Parsed(v, i) == [ok |-> TRUE, v |-> v, i |-> i]

IsDigit(c) == c >= 48 /\ c <= 57

\* the index of the first character at or after i that is not JSON whitespace
RECURSIVE SkipWs(_, _)
SkipWs(t, i) ==
    IF i <= Len(t) /\ t[i] \in {32, 9, 10, 13} THEN SkipWs(t, i + 1) ELSE i

HasAt(t, i, lit) ==
    i + Len(lit) - 1 <= Len(t) /\ SubSeq(t, i, i + Len(lit) - 1) = lit

RECURSIVE DigitsEnd(_, _)
DigitsEnd(t, i) ==
    IF i <= Len(t) /\ IsDigit(t[i]) THEN DigitsEnd(t, i + 1) ELSE i

RECURSIVE DigitsValue(_)
DigitsValue(d) ==
    IF d = <<>> THEN 0
    ELSE 10 * DigitsValue(SubSeq(d, 1, Len(d) - 1)) + (d[Len(d)] - 48)

\* an integer -?(0|[1-9][0-9]*) starting at i
ParseNumber(t, i) ==
    LET neg == t[i] = 45
        j   == IF neg THEN i + 1 ELSE i
        e   == IF j <= Len(t) /\ t[j] = 48 THEN j + 1 ELSE DigitsEnd(t, j)
    IN  IF e = j THEN ParseFail
        ELSE Parsed(JInt((IF neg THEN -1 ELSE 1) * DigitsValue(SubSeq(t, j, e - 1))), e)

\* the rest of a string whose opening quote precedes i: [ok, s, i]
RECURSIVE ScanString(_, _, _)
ScanString(t, i, acc) ==
    IF i > Len(t) THEN [ok |-> FALSE, s |-> <<>>, i |-> 0]
    ELSE IF t[i] = 34 THEN [ok |-> TRUE, s |-> acc, i |-> i + 1]
    ELSE IF t[i] < 32 THEN [ok |-> FALSE, s |-> <<>>, i |-> 0]
    ELSE IF t[i] = 92
         THEN IF i + 1 <= Len(t) /\ t[i + 1] \in {34, 92, 47}
              THEN ScanString(t, i + 2, Append(acc, t[i + 1]))
              ELSE [ok |-> FALSE, s |-> <<>>, i |-> 0]
    ELSE ScanString(t, i + 1, Append(acc, t[i]))

\* dict[k] = v: a repeated key keeps its place and takes the last value
PutMember(members, k, v) ==
    IF \E m \in 1..Len(members) : members[m].k = k
    THEN [m \in 1..Len(members) |->
            IF members[m].k = k THEN [k |-> k, v |-> v] ELSE members[m]]
    ELSE Append(members, [k |-> k, v |-> v])

RECURSIVE ParseValue(_, _)
RECURSIVE ParseElems(_, _, _)
RECURSIVE ParseMembers(_, _, _)

\* the JSON value that starts at or after i (leading whitespace skipped)
ParseValue(t, i0) ==
    LET i == SkipWs(t, i0)
    IN  IF i > Len(t) THEN ParseFail
        ELSE IF HasAt(t, i, <<110, 117, 108, 108>>) THEN Parsed(JNull, i + 4)
        ELSE IF HasAt(t, i, <<116, 114, 117, 101>>) THEN Parsed(JBool(TRUE), i + 4)
        ELSE IF HasAt(t, i, <<102, 97, 108, 115, 101>>) THEN Parsed(JBool(FALSE), i + 5)
        ELSE IF t[i] = 34
             THEN LET r == ScanString(t, i + 1, <<>>)
                  IN  IF r.ok THEN Parsed(JStr(r.s), r.i) ELSE ParseFail
        ELSE IF t[i] = 91
             THEN LET j == SkipWs(t, i + 1)
                  IN  IF j <= Len(t) /\ t[j] = 93 THEN Parsed(JList(<<>>), j + 1)
                      ELSE ParseElems(t, j, <<>>)
        ELSE IF t[i] = 123
             THEN LET j == SkipWs(t, i + 1)
                  IN  IF j <= Len(t) /\ t[j] = 125 THEN Parsed(JDict(<<>>), j + 1)
                      ELSE ParseMembers(t, j, <<>>)
        ELSE IF t[i] = 45 \/ IsDigit(t[i]) THEN ParseNumber(t, i)
        ELSE ParseFail

\* the elements of a list after '[' or ',', up to the closing ']'
ParseElems(t, i, acc) ==
    LET r == ParseValue(t, i)
    IN  IF ~r.ok THEN ParseFail
        ELSE LET j == SkipWs(t, r.i)
             IN  IF j > Len(t) THEN ParseFail
                 ELSE IF t[j] = 44 THEN ParseElems(t, j + 1, Append(acc, r.v))
                 ELSE IF t[j] = 93 THEN Parsed(JList(Append(acc, r.v)), j + 1)
                 ELSE ParseFail

\* the members of a dict after '{' or ',', up to the closing '}'
ParseMembers(t, i, acc) ==
    LET j == SkipWs(t, i)
    IN  IF j > Len(t) \/ t[j] # 34 THEN ParseFail
        ELSE LET k == ScanString(t, j + 1, <<>>)
                 c == SkipWs(t, k.i)
             IN  IF ~k.ok \/ c > Len(t) \/ t[c] # 58 THEN ParseFail
                 ELSE LET r == ParseValue(t, c + 1)
                          e == SkipWs(t, r.i)
                      IN  IF ~r.ok \/ e > Len(t) THEN ParseFail
                          ELSE IF t[e] = 44
                               THEN ParseMembers(t, e + 1, PutMember(acc, k.s, r.v))
                          ELSE IF t[e] = 125
                               THEN Parsed(JDict(PutMember(acc, k.s, r.v)), e + 1)
                          ELSE ParseFail

\* json.loads(text): [ok, v], ok = FALSE for json.JSONDecodeError
json_loads(text) ==
    LET r == ParseValue(text, 1)
    IN  IF r.ok /\ SkipWs(text, r.i) > Len(text)
        THEN [ok |-> TRUE, v |-> r.v]
        ELSE [ok |-> FALSE, v |-> JNull]

---------------------------------------------------------------------------
(* derive_key.  scrypt is an ideal key derivation function: its output is  *)
(* the record of its inputs, so two keys are equal only if every input is. *)

SCRYPT_N == 131072
SCRYPT_R == 8
SCRYPT_P == 1
SCRYPT_KEY_LEN == 32

\* scrypt.hash(password, salt, N, r, p, buflen)
scrypt_hash(password, salt, N, r, p, buflen) ==
    [password |-> password, salt |-> salt, N |-> N, r |-> r, p |-> p,
     buflen |-> buflen]

\* "ecash-v3-"
SaltPrefix == <<101, 99, 97, 115, 104, 45, 118, 51, 45>>

\* A slip that leaves the guess out of the derivation.
derive_key_no_guess(puzzle_id, guess) ==
    scrypt_hash(<<>>, encode_utf8(SaltPrefix \o Decimal(puzzle_id)),
                SCRYPT_N, SCRYPT_R, SCRYPT_P, SCRYPT_KEY_LEN)

derive_key(puzzle_id, guess) ==
    scrypt_hash(encode_utf8(guess),
                encode_utf8(SaltPrefix \o Decimal(puzzle_id)),
                SCRYPT_N, SCRYPT_R, SCRYPT_P, SCRYPT_KEY_LEN)

---------------------------------------------------------------------------
(* AES-GCM as an ideal AEAD.  The only encryption that exists is the one   *)
(* the puzzle author made (the variable puzzle); decrypt_and_verify        *)
(* returns its plaintext for exactly that key, nonce, ciphertext and tag,  *)
(* and fails the MAC check for anything else.                              *)

\* the length of the tag GCM computes (mac_len, the default of AES.new)
GCM_MAC_LEN == 16

\* the ciphertext of an n-byte plaintext: n bytes that tell nothing
CipherBytes(n) == [i \in 1..n |-> (160 + 7 * i) % 256]

TagBytes == [i \in 1..GCM_MAC_LEN |-> 200 + i]

\* AES.new(key, AES.MODE_GCM, nonce=nonce): ValueError for an empty nonce,
\* every other nonce length is accepted
AES_new_ok(key, nonce) == nonce # <<>>

\* cipher.decrypt_and_verify(ciphertext, tag): [ok, plaintext], ok = FALSE
\* for ValueError("MAC check failed")
decrypt_and_verify(key, nonce, ciphertext, tag) ==
    IF /\ puzzle.called
       /\ key = puzzle.key
       /\ nonce = puzzle.nonce
       /\ ciphertext = puzzle.ciphertext
       /\ tag = puzzle.tag
    THEN [ok |-> TRUE, plaintext |-> puzzle.plaintext]
    ELSE [ok |-> FALSE, plaintext |-> <<>>]

---------------------------------------------------------------------------
(* try_decrypt.  The result is [outcome, aead, result]: outcome says       *)
(* whether the call returned or raised, aead whether AES.new was reached,  *)
(* result is the dict returned.  scrypt_ok is the environment: FALSE when  *)
(* scrypt.hash raises scrypt.error (it cannot allocate its memory).        *)

Failure(normalized, error, aead) ==
    [outcome |-> "return", aead |-> aead,
     result |-> [success |-> FALSE, normalized |-> normalized, error |-> error]]

Success(normalized, data) ==
    [outcome |-> "return", aead |-> TRUE,
     result |-> [success |-> TRUE, data |-> data, normalized |-> normalized]]

Raised(error) ==
    [outcome |-> "raise", aead |-> FALSE, result |-> [error |-> error]]

\* lines 79-98 of try_decrypt, with the key already derived
DecryptWith(key, normalized, blob_data) ==
    IF "blob" \notin DOMAIN blob_data THEN Failure(normalized, "'blob'", FALSE)
    ELSE LET ciphertext == fromhex(blob_data.blob) IN
    IF ~ciphertext.ok THEN Failure(normalized, "non-hexadecimal number found", FALSE)
    ELSE IF "nonce" \notin DOMAIN blob_data THEN Failure(normalized, "'nonce'", FALSE)
    ELSE LET nonce == fromhex(blob_data.nonce) IN
    IF ~nonce.ok THEN Failure(normalized, "non-hexadecimal number found", FALSE)
    ELSE IF "tag" \notin DOMAIN blob_data THEN Failure(normalized, "'tag'", FALSE)
    ELSE LET tag == fromhex(blob_data.tag) IN
    IF ~tag.ok THEN Failure(normalized, "non-hexadecimal number found", FALSE)
    ELSE IF ~AES_new_ok(key, nonce.bytes)
         THEN Failure(normalized, "Nonce cannot be empty", TRUE)
    ELSE LET decrypted == decrypt_and_verify(key, nonce.bytes, ciphertext.bytes, tag.bytes) IN
    IF ~decrypted.ok THEN Failure(normalized, "MAC check failed", TRUE)
    ELSE LET text == decode_utf8(decrypted.plaintext) IN
    IF ~text.ok THEN Failure(normalized, "'utf-8' codec can't decode", TRUE)
    ELSE LET data == json_loads(text.s) IN
    IF ~data.ok THEN Failure(normalized, "JSONDecodeError", TRUE)
    ELSE Success(normalized, data.v)

\* A slip that derives the key from the raw guess.
try_decrypt_raw_guess(puzzle_id, guess, blob_data, scrypt_ok) ==
    IF ~scrypt_ok THEN Failure(normalize(guess), "scrypt.error", FALSE)
    ELSE DecryptWith(derive_key(puzzle_id, guess), normalize(guess), blob_data)

\* A slip that starts the try block after the blob is read: a missing or
\* malformed field raises.
try_decrypt_late_try(puzzle_id, guess, blob_data, scrypt_ok) ==
    LET r == IF ~scrypt_ok THEN Failure(normalize(guess), "scrypt.error", FALSE)
             ELSE DecryptWith(derive_key(puzzle_id, normalize(guess)), normalize(guess), blob_data)
    IN  IF ~r.result.success /\ ~r.aead /\ scrypt_ok THEN Raised(r.result.error) ELSE r

try_decrypt(puzzle_id, guess, blob_data, scrypt_ok) ==
    LET normalized == normalize(guess)
    IN  IF ~scrypt_ok THEN Failure(normalized, "scrypt.error", FALSE)
        ELSE DecryptWith(derive_key(puzzle_id, normalized), normalized, blob_data)

---------------------------------------------------------------------------
(* The normalize driver: the answer is drawn in Init, Normalize applies    *)
(* normalize to it and NormalizeAgain applies it to the result.            *)

NoText == <<>>

Idle == [called |-> FALSE]

InitNormalize ==
    /\ normIn \in StringsUpTo(Alphabet, MaxLen)
    /\ normPasses = 0
    /\ normOnce = NoText
    /\ normTwice = NoText
    /\ puzzle = Idle
    /\ attempt = Idle
    /\ commit = Idle

Normalize ==
    /\ normPasses = 0
    /\ normOnce' = normalize(normIn)
    /\ normPasses' = 1
    /\ UNCHANGED <<normIn, normTwice, puzzle, attempt, commit>>

NormalizeAgain ==
    /\ normPasses = 1
    /\ normTwice' = normalize(normOnce)
    /\ normPasses' = 2
    /\ UNCHANGED <<normIn, normOnce, puzzle, attempt, commit>>

NextNormalize == Normalize \/ NormalizeAgain

SpecNormalize == InitNormalize /\ [][NextNormalize]_vars

---------------------------------------------------------------------------
(* The puzzle author (an external collaborator): serialises a payload,     *)
(* encrypts it under the key of the answer and publishes the blob as three *)
(* hex strings.                                                            *)

\* longest raw guess, of the author's and of a try_decrypt call
MaxGuessLen == 2

\* the code points of the guesses: '!', 'A', 'b'
GuessAlphabet == {33, 65, 98}

Guesses == StringsUpTo(GuessAlphabet, MaxGuessLen)

\* a one-digit and a two-digit puzzle id
PuzzleIds == {7, 12}

\* the nonce lengths authors use: the 12 bytes GCM mandates, and 8
NonceLens == {12, 8}

NonceBytes(n) == [i \in 1..n |-> 16 + i]

HexDigit(n) == IF n < 10 THEN 48 + n ELSE 87 + n

\* bytes.hex()
hex(b) == Flatten([i \in 1..Len(b) |-> <<HexDigit(b[i] \div 16), HexDigit(b[i] % 16)>>])

\* the compact JSON text of a value (JSON.stringify), non-ASCII left as is
RECURSIVE JsonText(_)
RECURSIVE JoinTexts(_)
JoinTexts(texts) ==
    IF texts = <<>> THEN <<>>
    ELSE IF Len(texts) = 1 THEN texts[1]
    ELSE texts[1] \o <<44>> \o JoinTexts(Tail(texts))

QuotedText(s) ==
    <<34>> \o Flatten([i \in 1..Len(s) |->
                        IF s[i] \in {34, 92} THEN <<92, s[i]>> ELSE <<s[i]>>]) \o <<34>>

JsonText(v) ==
    CASE v.t = "null" -> <<110, 117, 108, 108>>
      [] v.t = "bool" -> IF v.n = 1 THEN <<116, 114, 117, 101>>
                         ELSE <<102, 97, 108, 115, 101>>
      [] v.t = "int"  -> IF v.n < 0 THEN <<45>> \o Decimal(-v.n) ELSE Decimal(v.n)
      [] v.t = "str"  -> QuotedText(v.s)
      [] v.t = "list" ->
            <<91>> \o JoinTexts([i \in 1..Len(v.items) |-> JsonText(v.items[i])]) \o <<93>>
      [] v.t = "dict" ->
            <<123>> \o JoinTexts([i \in 1..Len(v.items) |->
                         QuotedText(v.items[i].k) \o <<58>> \o JsonText(v.items[i].v)])
            \o <<125>>

\* the payloads authors encrypt: null, -20, "hé\"", {"k": [1, true]}
Payloads ==
    { JNull,
      JInt(-20),
      JStr(<<104, 233, 34>>),
      JDict(<<[k |-> <<107>>, v |-> JList(<<JInt(1), JBool(TRUE)>>)]>>) }

\* what gets encrypted: the JSON text of a payload, or bytes that are no
\* JSON ("{") or no UTF-8 (0xFF)
Plaintexts ==
    {[json |-> TRUE, d |-> v, bytes |-> encode_utf8(JsonText(v))] : v \in Payloads}
    \cup {[json |-> FALSE, d |-> JNull, bytes |-> <<123>>],
          [json |-> FALSE, d |-> JNull, bytes |-> <<255>>]}

\* the ways a blob reaches try_decrypt
Tamperings ==
    {"intact", "upper", "nonce_short", "nonce_empty", "nonce_nothex",
     "tag_short", "tag_flipped", "blob_odd", "no_tag"}

UpperHex(s) == [i \in 1..Len(s) |-> IF s[i] >= 97 /\ s[i] <= 102 THEN s[i] - 32 ELSE s[i]]

DropLast(s, n) == SubSeq(s, 1, Len(s) - n)

Tamper(blob, how) ==
    CASE how = "intact"       -> blob
      [] how = "upper"        -> [blob EXCEPT !.blob = UpperHex(@), !.tag = UpperHex(@)]
      [] how = "nonce_short"  -> [blob EXCEPT !.nonce = DropLast(@, 2)]
      [] how = "nonce_empty"  -> [blob EXCEPT !.nonce = <<>>]
      [] how = "nonce_nothex" -> [blob EXCEPT !.nonce = <<103>> \o Tail(@)]
      [] how = "tag_short"    -> [blob EXCEPT !.tag = DropLast(@, 2)]
      [] how = "tag_flipped"  -> [blob EXCEPT !.tag = DropLast(@, 1) \o <<48>>]
      [] how = "blob_odd"     -> [blob EXCEPT !.blob = DropLast(@, 1)]
      [] how = "no_tag"       -> [blob |-> blob.blob, nonce |-> blob.nonce]

InitDecrypt ==
    /\ normIn = NoText
    /\ normPasses = 0
    /\ normOnce = NoText
    /\ normTwice = NoText
    /\ puzzle = Idle
    /\ attempt = Idle
    /\ commit = Idle

\* the author encrypts a plaintext under derive_key(id, normalize(g))
Author ==
    /\ ~puzzle.called
    /\ \E id \in PuzzleIds, g \in Guesses, pt \in Plaintexts, n \in NonceLens :
         LET ciphertext == CipherBytes(Len(pt.bytes))
         IN  puzzle' = [called |-> TRUE,
                        id |-> id,
                        answer |-> normalize(g),
                        key |-> derive_key(id, normalize(g)),
                        nonce |-> NonceBytes(n),
                        json |-> pt.json,
                        d |-> pt.d,
                        plaintext |-> pt.bytes,
                        ciphertext |-> ciphertext,
                        tag |-> TagBytes,
                        blob |-> [blob |-> hex(ciphertext),
                                  nonce |-> hex(NonceBytes(n)),
                                  tag |-> hex(TagBytes)]]
    /\ UNCHANGED <<normIn, normPasses, normOnce, normTwice, attempt, commit>>

\* a caller tries a guess on the published blob, as published or tampered with
TryDecrypt ==
    /\ puzzle.called
    /\ ~attempt.called
    /\ \E id \in PuzzleIds, g \in Guesses, how \in Tamperings :
         LET blob_data == Tamper(puzzle.blob, how)
             r == try_decrypt(id, g, blob_data, TRUE)
         IN  attempt' = [called |-> TRUE, puzzle_id |-> id, guess |-> g,
                         blob_data |-> blob_data, how |-> how, scrypt_ok |-> TRUE,
                         outcome |-> r.outcome, aead |-> r.aead, result |-> r.result]
    /\ UNCHANGED <<normIn, normPasses, normOnce, normTwice, puzzle, commit>>

\* the same call in an environment where scrypt cannot run
TryDecryptScryptFails ==
    /\ puzzle.called
    /\ ~attempt.called
    /\ \E id \in PuzzleIds, g \in Guesses :
         LET r == try_decrypt(id, g, puzzle.blob, FALSE)
         IN  attempt' = [called |-> TRUE, puzzle_id |-> id, guess |-> g,
                         blob_data |-> puzzle.blob, how |-> "intact", scrypt_ok |-> FALSE,
                         outcome |-> r.outcome, aead |-> r.aead, result |-> r.result]
    /\ UNCHANGED <<normIn, normPasses, normOnce, normTwice, puzzle, commit>>

NextDecrypt == Author \/ TryDecrypt \/ TryDecryptScryptFails

SpecDecrypt == InitDecrypt /\ [][NextDecrypt]_vars

---------------------------------------------------------------------------
(* compute_commit_hash: keccak256 of the packed encoding of                *)
(* (string answer, bytes32 salt, bytes32 secret, address).  Keccak-256 is  *)
(* an ideal hash: the digest is the record of its preimage.                *)

\* the sizes of the ABI types bytes32 and address
BYTES32_LEN == 32
ADDRESS_LEN == 20

Fill(n, b) == [i \in 1..n |-> b]

\* zpad_right: zero bytes appended up to n bytes
ZPadRight(b, n) == IF Len(b) >= n THEN b ELSE b \o Fill(n - Len(b), 0)

PackFail == [ok |-> FALSE, bytes |-> <<>>]
Packed(b) == [ok |-> TRUE, bytes |-> b]

\* the packed 'string' encoder: the UTF-8 bytes, nothing added
PackString(value) ==
    IF \E i \in 1..Len(value) : IsSurrogate(value[i]) THEN PackFail
    ELSE Packed(encode_utf8(value))

\* the packed 'bytes32' encoder: ValueOutOfBounds above 32 bytes, a shorter
\* value is padded with zero bytes on the right
PackBytes32(value) ==
    IF Len(value) > BYTES32_LEN THEN PackFail
    ELSE Packed(ZPadRight(value, BYTES32_LEN))

\* s without a leading "0x" or "0X"
Remove0x(s) ==
    IF Len(s) >= 2 /\ s[1] = 48 /\ s[2] \in {120, 88} THEN SubSeq(s, 3, Len(s)) ELSE s

\* is_address of a lower-case str: 40 hexadecimal digits after the optional 0x
is_address(value) ==
    /\ Len(Remove0x(value)) = 2 * ADDRESS_LEN
    /\ \A i \in 1..Len(Remove0x(value)) : HexValue(Remove0x(value)[i]) >= 0

\* the packed 'address' encoder: the 20 bytes of a valid address
PackAddress(value) ==
    IF ~is_address(value) THEN PackFail
    ELSE Packed(fromhex(Remove0x(value)).bytes)

\* A slip that encodes the answer as a padded 32-byte ABI word.
encode_packed_padded_answer(answer, salt, secret, address) ==
    LET a == PackString(answer)
        s == PackBytes32(salt)
        x == PackBytes32(secret)
        w == PackAddress(address)
    IN  IF a.ok /\ s.ok /\ x.ok /\ w.ok
        THEN Packed(ZPadRight(a.bytes, BYTES32_LEN) \o s.bytes \o x.bytes \o w.bytes)
        ELSE PackFail

\* encode_packed(['string', 'bytes32', 'bytes32', 'address'], [...])
encode_packed(answer, salt, secret, address) ==
    LET a == PackString(answer)
        s == PackBytes32(salt)
        x == PackBytes32(secret)
        w == PackAddress(address)
    IN  IF a.ok /\ s.ok /\ x.ok /\ w.ok
        THEN Packed(a.bytes \o s.bytes \o x.bytes \o w.bytes)
        ELSE PackFail

\* Web3.keccak
keccak(b) == [keccak256 |-> b]

\* s[2:]
From2(s) == SubSeq(s, 3, Len(s))

\* [outcome, packed, hash]: the call returns the hash of packed, or raises
compute_commit_hash(answer, salt, secret, address) ==
    LET s == fromhex(From2(salt))
        x == fromhex(From2(secret))
        packed == encode_packed(answer, s.bytes, x.bytes, address)
    IN  IF s.ok /\ x.ok /\ packed.ok
        THEN [outcome |-> "return", packed |-> packed.bytes, hash |-> keccak(packed.bytes)]
        ELSE [outcome |-> "raise", packed |-> <<>>, hash |-> keccak(<<>>)]

---------------------------------------------------------------------------
(* The compute_commit_hash driver.                                         *)

\* longest answer handed to compute_commit_hash
MaxAnswerLen == 2

\* the code points of the answers: space, 'a', U+00E9
AnswerAlphabet == {32, 97, 233}

\* "0x"
Prefix0x == <<48, 120>>

\* salts and secrets: 32 bytes; 32 bytes that end in a zero; the same
\* without the last byte (31 bytes); 33 bytes; 32 bytes without the "0x";
\* not hexadecimal
Bytes32Texts(b) ==
    { Prefix0x \o hex(Fill(32, b)),
      Prefix0x \o hex(Fill(31, b) \o <<0>>),
      Prefix0x \o hex(Fill(31, b)),
      Prefix0x \o hex(Fill(33, b)),
      hex(Fill(32, b)),
      Prefix0x \o <<122, 122>> }

\* addresses: two of 20 bytes, one without the "0x", 19 bytes, 21 bytes
AddressTexts ==
    { Prefix0x \o hex(Fill(20, 170)),
      Prefix0x \o hex(Fill(19, 170) \o <<0>>),
      hex(Fill(20, 170)),
      Prefix0x \o hex(Fill(19, 170)),
      Prefix0x \o hex(Fill(21, 170)) }

InitCommit ==
    /\ normIn = NoText
    /\ normPasses = 0
    /\ normOnce = NoText
    /\ normTwice = NoText
    /\ puzzle = Idle
    /\ attempt = Idle
    /\ commit = Idle

ComputeCommitHash ==
    /\ ~commit.called
    /\ \E answer \in StringsUpTo(AnswerAlphabet, MaxAnswerLen),
          salt \in Bytes32Texts(17), secret \in Bytes32Texts(34),
          address \in AddressTexts :
         LET r == compute_commit_hash(answer, salt, secret, address)
         IN  commit' = [called |-> TRUE, calls |-> 1,
                        answer |-> answer, salt |-> salt, secret |-> secret,
                        address |-> address,
                        outcome |-> r.outcome, packed |-> r.packed, hash |-> r.hash,
                        again |-> r]
    /\ UNCHANGED <<normIn, normPasses, normOnce, normTwice, puzzle, attempt>>

\* the same call once more
ComputeCommitHashAgain ==
    /\ commit.called
    /\ commit.calls = 1
    /\ commit' = [commit EXCEPT
                    !.calls = 2,
                    !.again = compute_commit_hash(commit.answer, commit.salt,
                                                  commit.secret, commit.address)]
    /\ UNCHANGED <<normIn, normPasses, normOnce, normTwice, puzzle, attempt>>

NextCommit == ComputeCommitHash \/ ComputeCommitHashAgain

SpecCommit == InitCommit /\ [][NextCommit]_vars

---------------------------------------------------------------------------
(* Claims about normalize.                                                 *)

\* ASCII-only case folding: only A-Z are lowered.
AsciiLowerChar(c) == IF c >= 65 /\ c <= 90 THEN c + 32 ELSE c

\* The reference algorithm of the specification: ASCII lowercasing of A-Z,
\* deletion of everything outside a-z, 0-9 and space, collapse of the runs
\* of spaces, trim.
ReferenceNormalize(s) ==
    strip(SubSpaces(SubDisallowed([i \in 1..Len(s) |-> AsciiLowerChar(s[i])])))

\* C6: for every input, normalize returns what the reference algorithm
\* returns: a non-ASCII character is removed, never folded into an ASCII
\* letter.
C6_MatchesReference ==
    normPasses >= 1 => normOnce = ReferenceNormalize(normIn)

\* C7: normalize is idempotent: applying it to its own result returns that
\* result unchanged.
C7_Idempotent ==
    normPasses = 2 => normTwice = normOnce

\* a second pass over an answer the first pass really changed and did not empty
C7_Witness ==
    /\ normPasses = 2
    /\ normOnce # normIn
    /\ Len(normOnce) >= 2
    /\ \E i \in 1..Len(normOnce) : normOnce[i] = 32

\* a valid NormalizedAnswer: only a-z, 0-9 and space, no two consecutive
\* spaces, no leading or trailing space
IsNormalizedAnswer(s) ==
    /\ \A i \in 1..Len(s) : IsKept(s[i])
    /\ \A i \in 1..(Len(s) - 1) : ~(s[i] = 32 /\ s[i + 1] = 32)
    /\ s # <<>> => s[1] # 32 /\ s[Len(s)] # 32

\* C8: every result of normalize is a valid NormalizedAnswer (possibly empty).
C8_ValidNormalizedAnswer ==
    normPasses >= 1 => IsNormalizedAnswer(normOnce)

\* an answer of MaxLen code points that is not a NormalizedAnswer itself,
\* normalized to three characters with a space in the middle
C8_Witness ==
    /\ normPasses >= 1
    /\ Len(normIn) = MaxLen
    /\ ~IsNormalizedAnswer(normIn)
    /\ Len(normOnce) = 3
    /\ normOnce[2] = 32

---------------------------------------------------------------------------
(* Claims about try_decrypt.                                               *)

\* the three fields are there and decode to the author's ciphertext, nonce
\* and tag
BlobIsAuthored ==
    /\ DOMAIN attempt.blob_data = {"blob", "nonce", "tag"}
    /\ fromhex(attempt.blob_data.blob) = [ok |-> TRUE, bytes |-> puzzle.ciphertext]
    /\ fromhex(attempt.blob_data.nonce) = [ok |-> TRUE, bytes |-> puzzle.nonce]
    /\ fromhex(attempt.blob_data.tag) = [ok |-> TRUE, bytes |-> puzzle.tag]

JsonEq(a, b) == a.t = b.t /\ a = b

\* C1: a blob made by encrypting the JSON text of d under
\* derive_key(p, normalize(g)) with a 12-byte nonce and a 16-byte tag
\* decrypts, for p and any guess that normalizes to normalize(g), to
\* success = True with data = d and normalized = normalize(g).
C1_RoundTrip ==
    ( /\ attempt.called
      /\ attempt.scrypt_ok
      /\ puzzle.json
      /\ Len(puzzle.nonce) = 12
      /\ Len(puzzle.tag) = 16
      /\ BlobIsAuthored
      /\ attempt.puzzle_id = puzzle.id
      /\ normalize(attempt.guess) = puzzle.answer )
    => /\ attempt.outcome = "return"
       /\ attempt.result.success
       /\ "data" \in DOMAIN attempt.result
       /\ JsonEq(attempt.result.data, puzzle.d)
       /\ attempt.result.normalized = puzzle.answer

\* a raw guess that differs from the answer it normalizes to recovers a dict
C1_Witness ==
    /\ attempt.called
    /\ attempt.scrypt_ok
    /\ puzzle.json
    /\ Len(puzzle.nonce) = 12
    /\ BlobIsAuthored
    /\ attempt.puzzle_id = puzzle.id
    /\ normalize(attempt.guess) = puzzle.answer
    /\ attempt.guess # puzzle.answer
    /\ puzzle.answer # <<>>
    /\ puzzle.d.t = "dict"
    /\ attempt.result.success

\* C2: on a blob built from guess g under puzzle id p, try_decrypt(p, g', blob)
\* returns a failure (success = False, no data) for every g' that normalizes
\* differently from g.
C2_WrongGuessFails ==
    ( /\ attempt.called
      /\ BlobIsAuthored
      /\ attempt.puzzle_id = puzzle.id
      /\ normalize(attempt.guess) # puzzle.answer )
    => /\ attempt.outcome = "return"
       /\ ~attempt.result.success
       /\ "data" \notin DOMAIN attempt.result

\* a wrong guess on a well-formed puzzle fails the MAC check
C2_Witness ==
    /\ attempt.called
    /\ attempt.scrypt_ok
    /\ puzzle.json
    /\ Len(puzzle.nonce) = 12
    /\ BlobIsAuthored
    /\ attempt.puzzle_id = puzzle.id
    /\ normalize(attempt.guess) # puzzle.answer
    /\ normalize(attempt.guess) # <<>>
    /\ attempt.result.error = "MAC check failed"

\* a field of the blob that is there is not hexadecimal, or the nonce is not
\* 12 bytes, or the tag is not 16 bytes
FieldMalformed(blob_data, field, n) ==
    field \in DOMAIN blob_data =>
        \/ ~fromhex(blob_data[field]).ok
        \/ n >= 0 /\ Len(fromhex(blob_data[field]).bytes) # n

BlobMalformed(blob_data) ==
    \/ "blob" \in DOMAIN blob_data /\ FieldMalformed(blob_data, "blob", -1)
    \/ "nonce" \in DOMAIN blob_data /\ FieldMalformed(blob_data, "nonce", 12)
    \/ "tag" \in DOMAIN blob_data /\ FieldMalformed(blob_data, "tag", 16)

\* C4: a malformed blob (a field that is not hexadecimal, a nonce that is
\* not 12 bytes, a tag that is not 16 bytes) is rejected before the AEAD
\* primitive is invoked, with an error that is not the failure of a wrong
\* guess.
C4_MalformedBlobRejectedEarly ==
    ( /\ attempt.called
      /\ attempt.scrypt_ok
      /\ BlobMalformed(attempt.blob_data) )
    => /\ ~attempt.aead
       /\ ~attempt.result.success
       /\ attempt.result.error # "MAC check failed"

\* C5: when the key derivation primitive fails, try_decrypt raises to the
\* caller instead of returning the failure result of a wrong guess.
C5_FatalErrorPropagates ==
    (attempt.called /\ ~attempt.scrypt_ok) => attempt.outcome = "raise"

\* C9: try_decrypt never raises: every call returns a result that carries
\* normalized = normalize(guess), with data when success = True and with an
\* error description when success = False.
C9_NeverRaises ==
    attempt.called =>
        /\ attempt.outcome = "return"
        /\ attempt.result.normalized = normalize(attempt.guess)
        /\ attempt.result.success => "data" \in DOMAIN attempt.result
        /\ ~attempt.result.success => "error" \in DOMAIN attempt.result

\* the right guess on a plaintext that verifies but is not JSON
C9_Witness ==
    /\ attempt.called
    /\ ~puzzle.json
    /\ attempt.aead
    /\ attempt.outcome = "return"
    /\ ~attempt.result.success
    /\ attempt.result.error = "JSONDecodeError"

---------------------------------------------------------------------------
(* Claims about compute_commit_hash.                                       *)

\* the bytes the salt, the secret and the address of the call decode to
SaltBytes == fromhex(From2(commit.salt))
SecretBytes == fromhex(From2(commit.secret))
AddressBytes == fromhex(Remove0x(commit.address))

\* 32-byte salt, 32-byte secret, 20-byte address
WellFormedInputs ==
    /\ SaltBytes.ok /\ Len(SaltBytes.bytes) = 32
    /\ SecretBytes.ok /\ Len(SecretBytes.bytes) = 32
    /\ AddressBytes.ok /\ Len(AddressBytes.bytes) = 20

\* C3: compute_commit_hash fails, and returns no hash, whenever the decoded
\* salt or secret is not exactly 32 bytes or the address is not exactly 20
\* bytes.
C3_WrongLengthRejected ==
    (commit.called /\ ~WellFormedInputs) => commit.outcome = "raise"

\* the tuple a preimage decodes to, read from its end: the last 20 bytes
\* are the address, the 32 before them the secret, the 32 before those the
\* salt, and what is left is the UTF-8 text of the answer
Unpack(p) ==
    LET n == Len(p) - 84
    IN  [answer |-> decode_utf8(SubSeq(p, 1, n)).s,
         salt |-> SubSeq(p, n + 1, n + 32),
         secret |-> SubSeq(p, n + 33, n + 64),
         address |-> SubSeq(p, n + 65, n + 84)]

\* C10: on well-formed inputs the preimage is utf8(answer), the 32 salt
\* bytes, the 32 secret bytes and the 20 address bytes, with nothing added;
\* the tuple can be read back from the preimage (so two tuples with the
\* same preimage are equal), and a repeated call returns the same hash.
C10_PackedPreimageInjective ==
    (commit.called /\ WellFormedInputs) =>
        /\ commit.outcome = "return"
        /\ commit.packed = encode_utf8(commit.answer) \o SaltBytes.bytes
                           \o SecretBytes.bytes \o AddressBytes.bytes
        /\ Len(commit.packed) >= 84
        /\ Unpack(commit.packed) = [answer |-> commit.answer,
                                    salt |-> SaltBytes.bytes,
                                    secret |-> SecretBytes.bytes,
                                    address |-> AddressBytes.bytes]
        /\ commit.hash = keccak(commit.packed)
        /\ commit.again.outcome = "return"
        /\ commit.again.hash = commit.hash

\* a second call on a well-formed tuple whose answer has a two-byte character
C10_Witness ==
    /\ commit.called
    /\ commit.calls = 2
    /\ WellFormedInputs
    /\ Len(commit.answer) = 2
    /\ Len(encode_utf8(commit.answer)) = 3
    /\ commit.outcome = "return"

====
